---- MODULE Spec2Model ----
(***************************************************************************)
(* The five package-manager tools of breathsmith.py (uv_command,           *)
(* npm_command, npx_command, yarn_command, bun_command) as one state       *)
(* machine.  One invocation runs at a time; its steps are the points at    *)
(* which the handler touches the filesystem or spawns a child, so that     *)
(* other actors may change the filesystem between two steps.               *)
(*                                                                         *)
(* Text is a sequence of one-character strings.  An optional value is a    *)
(* set with no element (absent) or one element (present).                  *)
(***************************************************************************)
EXTENDS Integers, Sequences, FiniteSets, TLC

----------------------------------------------------------------------------
(* Bounds of the model *)

MaxCmdLen == 1
MaxOutLen == 1
MaxEnvSteps == 1

----------------------------------------------------------------------------
(* Program constants *)

Handlers == {"uv", "npm", "npx", "yarn", "bun"}

\* timeout: int = 60
DefaultTimeout == 60

\* common_bun_paths, in declared order
common_bun_paths == <<"~/.bun/bin/bun", "/usr/local/bin/bun", "/opt/homebrew/bin/bun">>

Markers == {"package.json", "yarn.lock", "bun.lockb", "node_modules", "package-lock.json"}

\* the has_* variables of each handler, in the order the report prints them
MarkerOrder(h) ==
  CASE h = "uv" -> << >>
    [] h = "npm" -> <<"package.json">>
    [] h = "npx" -> <<"package.json", "node_modules">>
    [] h = "yarn" -> <<"package.json", "yarn.lock", "node_modules">>
    [] h = "bun" -> <<"package.json", "bun.lockb", "node_modules">>

Range(s) == {s[i] : i \in DOMAIN s}

ProbedMarkers(h) == Range(MarkerOrder(h))

\* the files behind has_other_locks (bun only)
OtherLocks == {"yarn.lock", "package-lock.json"}

HasVersionQuery(h) == h \in {"yarn", "bun"}

----------------------------------------------------------------------------
(* Text *)

SeqsUpTo(S, n) == UNION {[1..k -> S] : k \in 0..n}

None == <<"None">>

CmdChars == {" ", "a"}
Commands == SeqsUpTo(CmdChars, MaxCmdLen) \cup {None}

OutChars == {"a", "\n", "\r"}
OutTexts == SeqsUpTo(OutChars, MaxOutLen)

Whitespace == {" ", "\n", "\r", "\t"}

RECURSIVE LStrip(_)
LStrip(s) == IF s # << >> /\ Head(s) \in Whitespace THEN LStrip(Tail(s)) ELSE s

RECURSIVE RStrip(_)
RStrip(s) ==
  IF s # << >> /\ s[Len(s)] \in Whitespace THEN RStrip(SubSeq(s, 1, Len(s) - 1)) ELSE s

\* no strip at all
Strip_None(s) == s

\* str.strip()
Strip(s) == RStrip(LStrip(s))

\* str.split(): the maximal runs of non-whitespace characters, in order
RECURSIVE SplitFrom(_, _, _)
SplitFrom(s, cur, acc) ==
  IF s = << >> THEN (IF cur = << >> THEN acc ELSE Append(acc, cur))
  ELSE IF Head(s) \in Whitespace
       THEN SplitFrom(Tail(s), << >>, IF cur = << >> THEN acc ELSE Append(acc, cur))
       ELSE SplitFrom(Tail(s), Append(cur, Head(s)), acc)

Split(s) == SplitFrom(s, << >>, << >>)

\* text=True: the child's bytes are decoded with universal newlines
RECURSIVE TextMode(_)
TextMode(s) ==
  IF s = << >> THEN << >>
  ELSE IF Head(s) = "\r"
       THEN IF Len(s) >= 2 /\ s[2] = "\n"
            THEN <<"\n">> \o TextMode(Tail(Tail(s)))
            ELSE <<"\n">> \o TextMode(Tail(s))
       ELSE <<Head(s)>> \o TextMode(Tail(s))

----------------------------------------------------------------------------
(* State *)

VARIABLES
  handler,         \* the tool being invoked
  command,         \* argument: command text (or None)
  directory,       \* argument: target directory, {} when not supplied
  timeout,         \* argument: timeout in seconds
  pc,              \* position of the invocation
  cmd_parts,       \* local: [exe, args] handed to the main subprocess.run
  cwd,             \* local: working directory
  bun_executable,  \* local: executable chosen by the bun resolver
  has,             \* local: has_package_json, has_yarn_lock, ... by marker name
  has_other_locks, \* local (bun)
  version,         \* local: yarn_version / bun_version
  children,        \* child processes started by this invocation, in order
  result,          \* the value returned by the handler
  dirs,            \* filesystem: the directories that exist
  files,           \* filesystem: the marker files present in the working directory
  binState,        \* filesystem: the tool's default executable on the search path
  fallbackExists,  \* filesystem: which of common_bun_paths exist
  envSteps         \* number of changes other actors made to the filesystem

args == <<handler, command, directory, timeout>>
locals == <<cmd_parts, cwd, bun_executable, has, has_other_locks, version>>
env == <<dirs, files, binState, fallbackExists, envSteps>>
vars == <<args, pc, locals, children, result, env>>

\* os.getcwd()
getcwd == "."

Dirs == {"proj", "gone"}
Directories == {{}} \cup {{d} : d \in Dirs}
Timeouts == {DefaultTimeout}
BinStates == {"ok", "absent", "noexec"}
FallbackPaths == Range(common_bun_paths)

\* os.path.exists(directory)
DirExists(d) == d = getcwd \/ d \in dirs

\* a check of the directory in place of the file: true once it holds anything
MarkerExists_DirNotEmpty(m) == DirExists(cwd) /\ files # {}

\* (Path(cwd) / m).exists()
MarkerExists(m) == DirExists(cwd) /\ m \in files

VersionArg == <<"--version">>
VersionOutputs == {<<"1">>, <<"1", "\n">>}
ExitCodes == {0, 1}

----------------------------------------------------------------------------
(* Reports *)

NoResult ==
  [tag |-> "none", message |-> "", labels |-> << >>, command |-> {}, directory |-> {},
   version |-> {}, markers |-> << >>, warning |-> FALSE, timeout |-> {},
   exitcode |-> {}, stdout |-> {}, stderr |-> {}]

ErrorReport(tag, message) == [NoResult EXCEPT !.tag = tag, !.message = message]

\* the text of the local variable `command` once the handler has normalised it
CommandText(h, c) ==
  IF h = "yarn" THEN (IF c = None THEN << >> ELSE Strip(c)) ELSE c

\* a line that is always the tool's name, a space and the command text
DisplayCommand_AlwaysWithText(h, c) == <<h, " ">> \o CommandText(h, c)

\* the "Command: ..." line
DisplayCommand(h, c) ==
  IF h = "yarn" /\ CommandText(h, c) = << >> THEN <<"yarn">>
  ELSE <<h, " ">> \o CommandText(h, c)

\* a report that leaves out the project files
CompletedReport_NoMarkers(h, c, wd, ver, hs, other, rc, out, err) ==
  [tag |-> "completed", message |-> "",
   labels |-> <<"Command", "Directory">>
              \o (IF HasVersionQuery(h) THEN <<"Version">> ELSE << >>)
              \o <<"Exit code">>
              \o (IF out # << >> THEN <<"STDOUT">> ELSE << >>)
              \o (IF err # << >> THEN <<"STDERR">> ELSE << >>),
   command |-> {DisplayCommand(h, c)},
   directory |-> {wd},
   version |-> IF HasVersionQuery(h) THEN {ver} ELSE {},
   markers |-> << >>,
   warning |-> FALSE,
   timeout |-> {},
   exitcode |-> {rc},
   stdout |-> IF out # << >> THEN {Strip(out)} ELSE {},
   stderr |-> IF err # << >> THEN {Strip(err)} ELSE {}]

\* a report that turns a non-zero exit code into an error message
CompletedReport_NonZeroIsError(h, c, wd, ver, hs, other, rc, out, err) ==
  IF rc # 0
  THEN [ErrorReport("error", "Command failed") EXCEPT !.exitcode = {rc}]
  ELSE [tag |-> "completed", message |-> "",
        labels |-> <<"Command", "Directory">>
                   \o (IF HasVersionQuery(h) THEN <<"Version">> ELSE << >>)
                   \o MarkerOrder(h)
                   \o (IF h = "bun" /\ other THEN <<"Other lock files">> ELSE << >>)
                   \o <<"Exit code">>
                   \o (IF out # << >> THEN <<"STDOUT">> ELSE << >>)
                   \o (IF err # << >> THEN <<"STDERR">> ELSE << >>),
        command |-> {DisplayCommand(h, c)},
        directory |-> {wd},
        version |-> IF HasVersionQuery(h) THEN {ver} ELSE {},
        markers |-> [m \in ProbedMarkers(h) |-> hs[m]],
        warning |-> h = "bun" /\ other,
        timeout |-> {},
        exitcode |-> {rc},
        stdout |-> IF out # << >> THEN {Strip(out)} ELSE {},
        stderr |-> IF err # << >> THEN {Strip(err)} ELSE {}]

\* a report that prints the exit code after the output sections
CompletedReport_ExitCodeLast(h, c, wd, ver, hs, other, rc, out, err) ==
  [tag |-> "completed", message |-> "",
   labels |-> <<"Command", "Directory">>
              \o (IF HasVersionQuery(h) THEN <<"Version">> ELSE << >>)
              \o MarkerOrder(h)
              \o (IF h = "bun" /\ other THEN <<"Other lock files">> ELSE << >>)
              \o (IF out # << >> THEN <<"STDOUT">> ELSE << >>)
              \o (IF err # << >> THEN <<"STDERR">> ELSE << >>)
              \o <<"Exit code">>,
   command |-> {DisplayCommand(h, c)},
   directory |-> {wd},
   version |-> IF HasVersionQuery(h) THEN {ver} ELSE {},
   markers |-> [m \in ProbedMarkers(h) |-> hs[m]],
   warning |-> h = "bun" /\ other,
   timeout |-> {},
   exitcode |-> {rc},
   stdout |-> IF out # << >> THEN {Strip(out)} ELSE {},
   stderr |-> IF err # << >> THEN {Strip(err)} ELSE {}]

\* output_parts of a completed run, joined
CompletedReport(h, c, wd, ver, hs, other, rc, out, err) ==
  [tag |-> "completed", message |-> "",
   labels |-> <<"Command", "Directory">>
              \o (IF HasVersionQuery(h) THEN <<"Version">> ELSE << >>)
              \o MarkerOrder(h)
              \o (IF h = "bun" /\ other THEN <<"Other lock files">> ELSE << >>)
              \o <<"Exit code">>
              \o (IF out # << >> THEN <<"STDOUT">> ELSE << >>)
              \o (IF err # << >> THEN <<"STDERR">> ELSE << >>),
   command |-> {DisplayCommand(h, c)},
   directory |-> {wd},
   version |-> IF HasVersionQuery(h) THEN {ver} ELSE {},
   markers |-> [m \in ProbedMarkers(h) |-> hs[m]],
   warning |-> h = "bun" /\ other,
   timeout |-> {},
   exitcode |-> {rc},
   stdout |-> IF out # << >> THEN {Strip(out)} ELSE {},
   stderr |-> IF err # << >> THEN {Strip(err)} ELSE {}]

\* the handlers without their last clause, `except Exception`
OuterExcept_NoCatchAll(h, exc, t) ==
  CASE exc = "TimeoutExpired" ->
         [ErrorReport("timed-out", "Command timed out") EXCEPT !.timeout = {t}]
    [] exc = "FileNotFoundError" -> ErrorReport("not-found", "command not found")
    [] OTHER -> ErrorReport("raised", exc)

\* the handlers without `except subprocess.TimeoutExpired`
OuterExcept_NoTimeoutClause(h, exc, t) ==
  CASE exc = "FileNotFoundError" -> ErrorReport("not-found", "command not found")
    [] OTHER -> ErrorReport("error", exc)

\* the except clauses that close each handler
OuterExcept(h, exc, t) ==
  CASE exc = "TimeoutExpired" ->
         [ErrorReport("timed-out", "Command timed out") EXCEPT !.timeout = {t}]
    [] exc = "FileNotFoundError" -> ErrorReport("not-found", "command not found")
    [] OTHER -> ErrorReport("error", exc)

----------------------------------------------------------------------------
(* Child processes *)

Unknown == <<"unknown">>

\* what the search path or the filesystem holds for an executable name or path
ExeState(exe) ==
  IF exe \in FallbackPaths
  THEN (IF exe \in fallbackExists THEN "ok" ELSE "absent")
  ELSE binState

\* subprocess.run(...) up to the creation of the child: "ok" or the exception the
\* filesystem makes it raise
Launch(exe, wd) ==
  IF \E d \in wd : ~DirExists(d) THEN "FileNotFoundError"
  ELSE CASE ExeState(exe) = "absent" -> "FileNotFoundError"
         [] ExeState(exe) = "noexec" -> "PermissionError"
         [] OTHER -> "ok"

\* every way the creation of the child can end: as the filesystem decides, or with
\* some other exception (the system cannot create a process)
LaunchOutcomes(exe, wd) == {Launch(exe, wd), "OSError"}

Child(kind, exe, as, wd, state, rc, out, err) ==
  [kind |-> kind, exe |-> exe, args |-> as, cwd |-> wd, state |-> state,
   code |-> rc, out |-> out, err |-> err]

\* the loop without its break: the last path that exists wins
SearchPaths_LastWins(paths, found) ==
  LET existing == {i \in DOMAIN paths : paths[i] \in fallbackExists}
  IN IF existing = {} THEN found
     ELSE paths[CHOOSE i \in existing : \A j \in existing : j <= i]

\* the loop over common_bun_paths
RECURSIVE SearchPaths(_, _)
SearchPaths(paths, found) ==
  IF paths = << >> THEN found
  ELSE IF Head(paths) \in fallbackExists THEN Head(paths)
       ELSE SearchPaths(Tail(paths), found)

----------------------------------------------------------------------------
(* Initial state *)

\* no invocation in progress: arguments and locals hold their defaults
Idle ==
  /\ handler = "uv"
  /\ command = None
  /\ directory = {}
  /\ timeout = DefaultTimeout
  /\ pc = "idle"
  /\ cmd_parts = [exe |-> "", args |-> << >>]
  /\ cwd = getcwd
  /\ bun_executable = "bun"
  /\ has = << >>
  /\ has_other_locks = FALSE
  /\ version = Unknown
  /\ children = << >>
  /\ result = NoResult

\* a project directory, empty or with its manifest; bun in none of the common
\* install locations
Init ==
  /\ Idle
  /\ dirs = {"proj"}
  /\ files \in {{}, {"package.json"}}
  /\ binState \in BinStates
  /\ fallbackExists = {}
  /\ envSteps = 0

\* a project directory with its manifest, bun in any of the common install locations
InitResolve ==
  /\ Idle
  /\ dirs = {"proj"}
  /\ files = {"package.json"}
  /\ binState \in BinStates
  /\ fallbackExists \in SUBSET FallbackPaths
  /\ envSteps = 0

----------------------------------------------------------------------------
(* The steps of an invocation *)

\* the request layer calls a handler
Call(h, c, d, t) ==
  /\ pc = "idle"
  /\ handler' = h
  /\ command' = c
  /\ directory' = d
  /\ timeout' = t
  /\ pc' = "check_command"
  /\ cmd_parts' = [exe |-> "", args |-> << >>]
  /\ cwd' = getcwd
  /\ bun_executable' = "bun"
  /\ has' = << >>
  /\ has_other_locks' = FALSE
  /\ version' = Unknown
  /\ children' = << >>
  /\ result' = NoResult
  /\ UNCHANGED env

Return(r) ==
  /\ result' = r
  /\ pc' = "done"

\* the check without the strip
IsEmptyCommand_NoStrip(c) == c = << >>

\* not command.strip()
IsEmptyCommand(c) == Strip(c) = << >>

\* the empty-command check and the split of the command text
CheckCommand ==
  /\ pc = "check_command"
  /\ IF handler = "yarn"
     THEN /\ cmd_parts' = [exe |-> "yarn", args |-> Split(CommandText(handler, command))]
          /\ pc' = "check_directory"
          /\ UNCHANGED result
     ELSE IF command = None
     THEN /\ Return(OuterExcept(handler, "AttributeError", timeout))
          /\ UNCHANGED cmd_parts
     ELSE IF IsEmptyCommand(command)
     THEN /\ Return(ErrorReport("validation", "Empty command provided"))
          /\ UNCHANGED cmd_parts
     ELSE IF handler = "bun"
     THEN /\ pc' = "resolve"
          /\ UNCHANGED <<cmd_parts, result>>
     ELSE /\ cmd_parts' = [exe |-> handler, args |-> Split(command)]
          /\ pc' = "check_directory"
          /\ UNCHANGED result
  /\ UNCHANGED <<args, cwd, bun_executable, has, has_other_locks, version, children, env>>

\* bun_command: probe "bun" on the search path, else the common install locations
ResolveExecutable ==
  /\ pc = "resolve"
  /\ \E launch \in LaunchOutcomes("bun", {}) :
     LET fallback == SearchPaths(common_bun_paths, "bun")
     IN CASE launch = "FileNotFoundError" ->
               /\ bun_executable' = fallback
               /\ cmd_parts' = [exe |-> fallback, args |-> Split(command)]
               /\ pc' = "check_directory"
               /\ UNCHANGED <<children, result>>
          [] launch = "ok" ->
               \/ \E rc \in ExitCodes :
                    /\ children' = Append(children,
                         Child("resolver", "bun", << >>, {}, "exited", {rc}, << >>, << >>))
                    /\ bun_executable' = "bun"
                    /\ cmd_parts' = [exe |-> "bun", args |-> Split(command)]
                    /\ pc' = "check_directory"
                    /\ UNCHANGED result
               \/ /\ children' = Append(children,
                         Child("resolver", "bun", << >>, {}, "killed", {}, << >>, << >>))
                  /\ bun_executable' = fallback
                  /\ cmd_parts' = [exe |-> fallback, args |-> Split(command)]
                  /\ pc' = "check_directory"
                  /\ UNCHANGED result
          [] OTHER ->
               /\ Return(OuterExcept(handler, launch, timeout))
               /\ UNCHANGED <<bun_executable, cmd_parts, children>>
  /\ UNCHANGED <<args, cwd, has, has_other_locks, version, env>>

\* cwd and the check that a supplied directory exists
CheckDirectory ==
  /\ pc = "check_directory"
  /\ cwd' = IF directory # {} THEN CHOOSE d \in directory : TRUE ELSE getcwd
  /\ IF \E d \in directory : ~DirExists(d)
     THEN Return(ErrorReport("validation", "Directory does not exist"))
     ELSE /\ pc' = IF ProbedMarkers(handler) = {} THEN "run" ELSE "probe"
          /\ UNCHANGED result
  /\ UNCHANGED <<args, cmd_parts, bun_executable, has, has_other_locks, version, children, env>>

\* a probe that leaves a manifest behind in the directory it looked at
ProbeMarkers_WritesManifest ==
  /\ pc = "probe"
  /\ has' = [m \in ProbedMarkers(handler) |-> MarkerExists(m)]
  /\ has_other_locks' = (handler = "bun" /\ \E m \in OtherLocks : MarkerExists(m))
  /\ pc' = IF HasVersionQuery(handler) THEN "version" ELSE "run"
  /\ files' = files \cup {"package.json"}
  /\ UNCHANGED <<args, cmd_parts, cwd, bun_executable, version, children, result,
                 dirs, binState, fallbackExists, envSteps>>

\* the has_* checks of the project files
ProbeMarkers ==
  /\ pc = "probe"
  /\ has' = [m \in ProbedMarkers(handler) |-> MarkerExists(m)]
  /\ has_other_locks' = (handler = "bun" /\ \E m \in OtherLocks : MarkerExists(m))
  /\ pc' = IF HasVersionQuery(handler) THEN "version" ELSE "run"
  /\ UNCHANGED <<args, cmd_parts, cwd, bun_executable, version, children, result, env>>

\* a version query whose launch failures reach the handler's except clauses
VersionQuery_Raises ==
  /\ pc = "version"
  /\ LET exe == IF handler = "bun" THEN bun_executable ELSE "yarn"
     IN \E launch \in LaunchOutcomes(exe, {}) :
        IF launch = "ok"
        THEN /\ \/ \E rc \in ExitCodes, out \in VersionOutputs :
                     /\ children' = Append(children,
                          Child("version", exe, <<VersionArg>>, {}, "exited", {rc}, out, << >>))
                     /\ version' = IF rc = 0 THEN Strip(TextMode(out)) ELSE version
                \/ /\ children' = Append(children,
                          Child("version", exe, <<VersionArg>>, {}, "killed", {}, << >>, << >>))
                   /\ UNCHANGED version
             /\ pc' = "run"
             /\ UNCHANGED result
        ELSE /\ Return(OuterExcept(handler, launch, timeout))
             /\ UNCHANGED <<children, version>>
  /\ UNCHANGED <<args, cmd_parts, cwd, bun_executable, has, has_other_locks, env>>

\* yarn_command, bun_command: the "--version" query, every failure swallowed
VersionQuery ==
  /\ pc = "version"
  /\ LET exe == IF handler = "bun" THEN bun_executable ELSE "yarn"
     IN \E launch \in LaunchOutcomes(exe, {}) :
        IF launch = "ok"
        THEN \/ \E rc \in ExitCodes, out \in VersionOutputs :
                  /\ children' = Append(children,
                       Child("version", exe, <<VersionArg>>, {}, "exited", {rc}, out, << >>))
                  /\ version' = IF rc = 0 THEN Strip(TextMode(out)) ELSE version
             \/ /\ children' = Append(children,
                       Child("version", exe, <<VersionArg>>, {}, "killed", {}, << >>, << >>))
                /\ UNCHANGED version
        ELSE UNCHANGED <<children, version>>
  /\ pc' = "run"
  /\ UNCHANGED <<args, cmd_parts, cwd, bun_executable, has, has_other_locks, result, env>>

\* a main run that, when the default name cannot be launched, tries again with
\* the first common install location
SpawnMain_RetriesElsewhere ==
  /\ pc = "run"
  /\ \E launch \in LaunchOutcomes(cmd_parts.exe, {cwd}) :
        IF launch = "ok"
        THEN /\ children' = Append(children,
                  Child("main", cmd_parts.exe, cmd_parts.args, {cwd}, "running", {}, << >>, << >>))
             /\ pc' = "waiting"
             /\ UNCHANGED <<result, cmd_parts>>
        ELSE IF cmd_parts.exe = handler
        THEN /\ cmd_parts' = [cmd_parts EXCEPT !.exe = common_bun_paths[1]]
             /\ UNCHANGED <<pc, children, result>>
        ELSE /\ Return(OuterExcept(handler, launch, timeout))
             /\ UNCHANGED <<children, cmd_parts>>
  /\ UNCHANGED <<args, cwd, bun_executable, has, has_other_locks, version, env>>

\* the main subprocess.run: the child is created, or the launch raises
SpawnMain ==
  /\ pc = "run"
  /\ \E launch \in LaunchOutcomes(cmd_parts.exe, {cwd}) :
        IF launch = "ok"
        THEN /\ children' = Append(children,
                  Child("main", cmd_parts.exe, cmd_parts.args, {cwd}, "running", {}, << >>, << >>))
             /\ pc' = "waiting"
             /\ UNCHANGED result
        ELSE /\ Return(OuterExcept(handler, launch, timeout))
             /\ UNCHANGED children
  /\ UNCHANGED <<args, locals, env>>

\* a report assembled from markers read again once the child has exited
MainExits_ReadsMarkersAgain(rc, out, err) ==
  /\ pc = "waiting"
  /\ children' = [children EXCEPT ![Len(children)] =
                    [@ EXCEPT !.state = "exited", !.code = {rc}, !.out = out, !.err = err]]
  /\ Return(CompletedReport(handler, command, cwd, version,
                            [m \in ProbedMarkers(handler) |-> MarkerExists(m)],
                            handler = "bun" /\ \E m \in OtherLocks : MarkerExists(m),
                            rc, TextMode(out), TextMode(err)))
  /\ UNCHANGED <<args, locals, env>>

\* the child exits within the timeout; the report is assembled and returned
MainExits(rc, out, err) ==
  /\ pc = "waiting"
  /\ children' = [children EXCEPT ![Len(children)] =
                    [@ EXCEPT !.state = "exited", !.code = {rc}, !.out = out, !.err = err]]
  /\ Return(CompletedReport(handler, command, cwd, version, has, has_other_locks,
                            rc, TextMode(out), TextMode(err)))
  /\ UNCHANGED <<args, locals, env>>

\* a wait that gives up at the timeout and leaves the child alone
MainTimesOut_NoKill(out, err) ==
  /\ pc = "waiting"
  /\ children' = [children EXCEPT ![Len(children)] = [@ EXCEPT !.out = out, !.err = err]]
  /\ Return(OuterExcept(handler, "TimeoutExpired", timeout))
  /\ UNCHANGED <<args, locals, env>>

\* a wait with no timeout: it ends only once the child has exited by itself
MainTimesOut_WaitsForExit(out, err) ==
  /\ pc = "waiting"
  /\ children[Len(children)].state # "running"
  /\ children' = [children EXCEPT ![Len(children)] = [@ EXCEPT !.out = out, !.err = err]]
  /\ Return(OuterExcept(handler, "TimeoutExpired", timeout))
  /\ UNCHANGED <<args, locals, env>>

\* the child is still running when the timeout elapses: subprocess.run kills it,
\* reaps it and raises TimeoutExpired
MainTimesOut(out, err) ==
  /\ pc = "waiting"
  /\ children' = [children EXCEPT ![Len(children)] =
                    [@ EXCEPT !.state = "killed", !.out = out, !.err = err]]
  /\ Return(OuterExcept(handler, "TimeoutExpired", timeout))
  /\ UNCHANGED <<args, locals, env>>

\* a handler that keeps what it resolved and probed for the next call
Finish_KeepsResolved ==
  /\ pc = "done"
  /\ handler' = "uv"
  /\ command' = None
  /\ directory' = {}
  /\ timeout' = DefaultTimeout
  /\ pc' = "idle"
  /\ cmd_parts' = [exe |-> "", args |-> << >>]
  /\ cwd' = getcwd
  /\ children' = << >>
  /\ result' = NoResult
  /\ UNCHANGED <<bun_executable, has, has_other_locks, version, env>>

\* the report has been handed to the request layer; nothing of the invocation is kept
Finish ==
  /\ pc = "done"
  /\ handler' = "uv"
  /\ command' = None
  /\ directory' = {}
  /\ timeout' = DefaultTimeout
  /\ pc' = "idle"
  /\ cmd_parts' = [exe |-> "", args |-> << >>]
  /\ cwd' = getcwd
  /\ bun_executable' = "bun"
  /\ has' = << >>
  /\ has_other_locks' = FALSE
  /\ version' = Unknown
  /\ children' = << >>
  /\ result' = NoResult
  /\ UNCHANGED env

----------------------------------------------------------------------------
(* Other actors on the filesystem *)

EnvRemoveDir(d) ==
  /\ envSteps < MaxEnvSteps
  /\ d \in dirs
  /\ dirs' = dirs \ {d}
  /\ envSteps' = envSteps + 1
  /\ UNCHANGED <<args, pc, locals, children, result, files, binState, fallbackExists>>

EnvCreateDir(d) ==
  /\ envSteps < MaxEnvSteps
  /\ d \notin dirs
  /\ dirs' = dirs \cup {d}
  /\ envSteps' = envSteps + 1
  /\ UNCHANGED <<args, pc, locals, children, result, files, binState, fallbackExists>>

EnvCreateFile(m) ==
  /\ envSteps < MaxEnvSteps
  /\ m \notin files
  /\ files' = files \cup {m}
  /\ envSteps' = envSteps + 1
  /\ UNCHANGED <<args, pc, locals, children, result, dirs, binState, fallbackExists>>

EnvRemoveFile(m) ==
  /\ envSteps < MaxEnvSteps
  /\ m \in files
  /\ files' = files \ {m}
  /\ envSteps' = envSteps + 1
  /\ UNCHANGED <<args, pc, locals, children, result, dirs, binState, fallbackExists>>

----------------------------------------------------------------------------

Next ==
  \/ \E h \in Handlers, c \in Commands, d \in Directories, t \in Timeouts : Call(h, c, d, t)
  \/ CheckCommand
  \/ ResolveExecutable
  \/ CheckDirectory
  \/ ProbeMarkers
  \/ VersionQuery
  \/ SpawnMain
  \/ \E rc \in ExitCodes, out \in OutTexts, err \in OutTexts : MainExits(rc, out, err)
  \/ \E out \in OutTexts, err \in OutTexts : MainTimesOut(out, err)
  \/ Finish
  \/ \E d \in Dirs : EnvRemoveDir(d)
  \/ \E d \in Dirs : EnvCreateDir(d)
  \/ \E m \in Markers : EnvCreateFile(m)
  \/ \E m \in Markers : EnvRemoveFile(m)

Spec == Init /\ [][Next]_vars

SpecResolve == InitResolve /\ [][Next]_vars

\* the steps that do not wait for the main child: each is a bounded computation, a
\* filesystem check, or a subprocess.run with a fixed timeout of its own
NonWaitStep ==
  \/ CheckCommand
  \/ ResolveExecutable
  \/ CheckDirectory
  \/ ProbeMarkers
  \/ VersionQuery
  \/ SpawnMain

\* the timer of the main subprocess.run
TimeoutStep == \E out \in OutTexts, err \in OutTexts : MainTimesOut(out, err)

\* the handler runs and the timer of the main run elapses; the child is under no
\* obligation to exit
SpecFair == Init /\ [][Next]_vars /\ WF_vars(NonWaitStep) /\ WF_vars(TimeoutStep)

----------------------------------------------------------------------------
(* Properties *)

ReportTags == {"validation", "completed", "timed-out", "not-found", "error"}

HasMain == children # << >> /\ children[Len(children)].kind = "main"
MainChild == children[Len(children)]

EmptyAfterTrim == command # None /\ Strip(command) = << >>

\* the invocation got past the empty-command check and the directory check
PassedValidation ==
  \/ pc \in {"probe", "version", "run", "waiting"}
  \/ pc = "done" /\ cmd_parts.exe # "" /\ result.tag # "validation"

\* a step of the invocation in progress
HandlerStep ==
  \/ CheckCommand
  \/ ResolveExecutable
  \/ CheckDirectory
  \/ ProbeMarkers
  \/ VersionQuery
  \/ SpawnMain
  \/ \E rc \in ExitCodes, out \in OutTexts, err \in OutTexts : MainExits(rc, out, err)
  \/ \E out \in OutTexts, err \in OutTexts : MainTimesOut(out, err)

\* C1 as stated: whichever the handler, a command that is empty after trimming
\* ends in a validation-failure report and no child was spawned.
C1_Original ==
  (pc = "done" /\ EmptyAfterTrim) => (result.tag = "validation" /\ children = << >>)

\* C1: in uv, npm, npx and bun a command that is empty after trimming spawns no
\* child at any point of the invocation and ends in the empty-command report;
\* yarn does not reject it.
C1_EmptyCommandRejected ==
  /\ (pc # "idle" /\ handler # "yarn" /\ EmptyAfterTrim) =>
       /\ children = << >>
       /\ pc = "done" => (result.tag = "validation" /\ result.message = "Empty command provided")
  /\ (pc = "done" /\ handler = "yarn" /\ EmptyAfterTrim) =>
       result.message # "Empty command provided"

C1_Witness ==
  pc = "done" /\ handler = "bun" /\ command = <<" ">> /\ result.tag = "validation"

\* C2: called with a command text and a directory that does not exist (and never
\* did during the invocation), a handler ends in a validation-failure report, and
\* no child (resolver probe, version query, main command) is spawned at any point
\* of the invocation.
C2_Claim ==
  (pc # "idle" /\ command # None /\ envSteps = 0 /\ \E d \in directory : d \notin dirs) =>
    /\ children = << >>
    /\ pc = "done" => result.tag = "validation"

\* C3: whatever the input and whatever each launch, child and filesystem check
\* does, the invocation can always take its next step, and what it returns is a
\* text report: no exception leaves the handler.
C3_AlwaysReturnsText ==
  /\ pc = "done" => result.tag \in ReportTags
  /\ pc \notin {"idle", "done"} => ENABLED HandlerStep

C3_Witness ==
  pc = "done" /\ result.tag = "error" /\ command # None /\ children = << >>

\* C4 as stated: an invocation that passed validation ends completed, timed-out
\* or not-found.
C4_Original ==
  (pc = "done" /\ PassedValidation) => result.tag \in {"completed", "timed-out", "not-found"}

\* C4: an invocation that passed validation ends in exactly one of four outcomes:
\* completed (the main child exited), timed-out (the main child was killed),
\* not-found or the generic error report (no main child was created).
C4_FourOutcomes ==
  (pc = "done" /\ PassedValidation) =>
    /\ result.tag \in {"completed", "timed-out", "not-found", "error"}
    /\ result.tag = "completed" <=> (HasMain /\ MainChild.state = "exited")
    /\ result.tag = "timed-out" <=> (HasMain /\ MainChild.state = "killed")
    /\ result.tag \in {"not-found", "error"} <=> ~HasMain

C4_Witness ==
  pc = "done" /\ PassedValidation /\ result.tag = "error"

\* C5: when the main child is still running at the timeout, the handler returns
\* the timed-out report, which has no exit code, and no child of the invocation
\* is running when the handler returns.
C5_TimeoutKillsChild ==
  pc = "done" =>
    /\ \A i \in DOMAIN children : children[i].state # "running"
    /\ (HasMain /\ MainChild.state # "exited") =>
         (result.tag = "timed-out" /\ result.exitcode = {} /\ MainChild.code = {})

C5_Witness ==
  pc = "done" /\ HasMain /\ MainChild.state = "killed" /\ result.tag = "timed-out"

\* C6: a timed-out report shows what the child wrote to standard output and
\* standard error before it was killed.
C6_Claim ==
  (pc = "done" /\ HasMain /\ MainChild.state = "killed") =>
    /\ MainChild.out # << >> => result.stdout # {}
    /\ MainChild.err # << >> => result.stderr # {}

Completed == pc = "done" /\ HasMain /\ MainChild.state = "exited"

\* C8: when the main child exits within the timeout the report is the completed
\* report and its exit code is the child's; whatever the exit code, the report has
\* the command, the directory, the markers, the exit-code line, and a section for
\* each stream the child wrote to.
C8_ExitCodeVerbatim ==
  Completed =>
    /\ result.tag = "completed"
    /\ result.exitcode = MainChild.code
    /\ result.message = ""
    /\ {"Command", "Directory", "Exit code"} \subseteq Range(result.labels)
    /\ result.command # {} /\ result.directory # {}
    /\ DOMAIN result.markers = ProbedMarkers(handler)
    /\ "STDOUT" \in Range(result.labels) <=> MainChild.out # << >>
    /\ "STDERR" \in Range(result.labels) <=> MainChild.err # << >>

C8_Witness ==
  Completed /\ MainChild.code = {1} /\ result.exitcode = {1} /\ result.tag = "completed"

\* the text of a section of the report, empty when the report has no such section
Carried(section) == IF section = {} THEN << >> ELSE CHOOSE text \in section : TRUE

NoEdgeWhitespace(text) ==
  text = << >> \/ (Head(text) \notin Whitespace /\ text[Len(text)] \notin Whitespace)

IsInk(c) == c \notin Whitespace

StrippedOf(reported, written) ==
  /\ NoEdgeWhitespace(reported)
  /\ Len(reported) <= Len(written)
  /\ SelectSeq(reported, IsInk) = SelectSeq(written, IsInk)
  /\ (NoEdgeWhitespace(written) /\ "\r" \notin Range(written)) => reported = written

C10_Claim ==
  (pc = "done" /\ PassedValidation /\ result.message # "OSError") =>
    (result.tag = "not-found" <=> ExeState(cmd_parts.exe) # "ok")

\* C10, one direction: not-found is never reported for a launchable executable.
C10_NotFoundOnlyIfUnlaunchable ==
  (pc = "done" /\ PassedValidation /\ result.tag = "not-found") =>
    ExeState(cmd_parts.exe) # "ok"

\* the command line a "Command: ..." line shows: the executable and the arguments
ShownCommandLine(line) == [exe |-> Head(line), args |-> Split(Tail(line))]

\* C11: the command line echoed in a completed report is the command line that
\* was run: the executable shown and the arguments shown are the executable and
\* the argument list of the main child, also when bun_command took its executable
\* from one of the common install locations.
C11_Claim ==
  Completed =>
    \A line \in result.command :
      /\ ShownCommandLine(line).exe = MainChild.exe
      /\ ShownCommandLine(line).args = MainChild.args

\* C12: every invocation terminates: whatever its children do, a child that never
\* exits included, an invocation that has started eventually returns its report.
C12_Terminates == (pc \notin {"idle", "done"}) ~> (pc = "done")

\* the resolver probe, the version query and the main run each ran into its timeout
C12_Witness ==
  /\ pc = "done" /\ handler = "bun" /\ Len(children) = 3
  /\ \A i \in DOMAIN children : children[i].state = "killed"

\* no local of an invocation holds a value and no child or report exists
NothingHeld ==
  /\ cmd_parts = [exe |-> "", args |-> << >>]
  /\ cwd = getcwd
  /\ bun_executable = "bun"
  /\ has = << >>
  /\ has_other_locks = FALSE
  /\ version = Unknown
  /\ children = << >>
  /\ result = NoResult

\* the children of the invocation in progress that ran the command
OwnMainChildren == {children[i] : i \in {j \in DOMAIN children : children[j].kind = "main"}}

FieldRank(label) ==
  CASE label = "Command" -> 1
    [] label = "Directory" -> 2
    [] label = "Version" -> 3
    [] label = "package.json" -> 4
    [] label \in {"yarn.lock", "bun.lockb"} -> 5
    [] label = "node_modules" -> 6
    [] label = "Other lock files" -> 7
    [] label = "Exit code" -> 8
    [] label = "STDOUT" -> 9
    [] label = "STDERR" -> 10
    [] OTHER -> 0

\* C14: in every completed report, whichever the handler, the fields come in the
\* one order command, working directory, version, markers, exit code, standard
\* output, standard error; the command, the directory and the exit code are
\* always among them.
C14_FixedOrder ==
  Completed =>
    /\ \A i, j \in DOMAIN result.labels :
         i < j => (0 < FieldRank(result.labels[i])
                   /\ FieldRank(result.labels[i]) < FieldRank(result.labels[j]))
    /\ Len(result.labels) >= 3
    /\ result.labels[1] = "Command" /\ result.labels[2] = "Directory"
    /\ "Exit code" \in Range(result.labels)

C14_Witness ==
  /\ Completed /\ handler = "bun" /\ result.warning
  /\ Len(result.labels) = 10 /\ result.labels[10] = "STDERR"

\* yarn_command called with no command text: None, empty, or whitespace only
YarnBare == pc # "idle" /\ handler = "yarn" /\ (command = None \/ Strip(command) = << >>)

\* C15: yarn_command called with an empty, whitespace-only or None command does
\* not reject the request for its command: it runs the executable `yarn` with no
\* argument in the target directory, and the completed report shows the command
\* as `yarn`.
C15_YarnBareRun ==
  YarnBare =>
    /\ pc = "done" => (result.message # "Empty command provided" /\ result.message # "AttributeError")
    /\ pc # "check_command" => cmd_parts = [exe |-> "yarn", args |-> << >>]
    /\ HasMain =>
         /\ MainChild.exe = "yarn"
         /\ MainChild.args = << >>
         /\ MainChild.cwd = (IF directory = {} THEN {getcwd} ELSE directory)
    /\ Completed => result.command = {<<"yarn">>}

C15_Witness ==
  /\ Completed /\ handler = "yarn" /\ command = None /\ directory = {"proj"}
  /\ result.command = {<<"yarn">>} /\ MainChild.args = << >>

\* bun_command is past its resolver
Resolved == handler = "bun" /\ cmd_parts.exe # ""

HasProbe == children # << >> /\ children[1].kind = "resolver"
ProbeExited == HasProbe /\ children[1].state = "exited"
ProbeTimedOut == HasProbe /\ children[1].state = "killed"
ProbeNotFound == Resolved /\ ~HasProbe

\* path p exists and no path declared before it does
FirstExisting(p) ==
  \E i \in DOMAIN common_bun_paths :
    /\ common_bun_paths[i] = p
    /\ p \in fallbackExists
    /\ \A j \in 1..(i - 1) : common_bun_paths[j] \notin fallbackExists

\* the main run was attempted and the system could create a process
MainRunAttempted == pc = "done" /\ PassedValidation /\ result.message # "OSError"

\* C16 as stated: a probe that exited keeps the default name; after a probe that
\* was not found or timed out the first existing fallback path is used; if none
\* exists the default name is used and the main run yields not-found.
C16_Original ==
  Resolved =>
    /\ cmd_parts.exe = bun_executable
    /\ ProbeExited => bun_executable = "bun"
    /\ (ProbeNotFound \/ ProbeTimedOut) =>
         IF fallbackExists = {}
         THEN /\ bun_executable = "bun"
              /\ MainRunAttempted => result.tag = "not-found"
         ELSE FirstExisting(bun_executable)

\* C16: a probe that exited, with any exit code, keeps the default name whatever
\* fallback paths exist; after a probe that was not found or timed out the first
\* existing fallback path in declared order is used; if none exists the default
\* name is used, and the main run yields not-found when the probe was not found.
\* After a probe that timed out the default name was found on the search path,
\* and the outcome of the main run is that of any other run.
C16_Resolution ==
  Resolved =>
    /\ cmd_parts.exe = bun_executable
    /\ ProbeExited => (bun_executable = "bun" /\ children[1].code \in {{0}, {1}})
    /\ (ProbeNotFound \/ ProbeTimedOut) =>
         IF fallbackExists = {}
         THEN /\ bun_executable = "bun"
              /\ (ProbeNotFound /\ MainRunAttempted) => result.tag = "not-found"
         ELSE FirstExisting(bun_executable)
    /\ HasMain => MainChild.exe = bun_executable

C16_Witness ==
  /\ Completed /\ handler = "bun" /\ ProbeTimedOut
  /\ fallbackExists = {"/usr/local/bin/bun", "/opt/homebrew/bin/bun"}
  /\ MainChild.exe = "/usr/local/bin/bun"

\* C17: the resolver of bun_command never raises: whatever its probe does (exits,
\* not found, times out, permission denied, any other launch failure), an
\* invocation with a command text ends its resolution with an executable name or
\* path and goes on to the directory check, the marker probe and the main run.
C17_Claim ==
  (handler = "bun" /\ command # None /\ ~IsEmptyCommand(command)) =>
    /\ pc = "done" => Resolved
    /\ (pc = "done" /\ result.tag # "validation") => PassedValidation

\* the version queries of the invocation in progress that exited with code 0
GoodVersionQueries ==
  {children[i] : i \in {j \in DOMAIN children :
      children[j].kind = "version" /\ children[j].state = "exited" /\ children[j].code = {0}}}

\* C18: the version query is advisory only.  Whatever it does (cannot be
\* launched, times out, exits with a non-zero code), the handler goes on to the
\* main run with the command line and the directory it had, and the version is
\* `unknown`; a version other than `unknown` is the stripped output of a query
\* that exited with code 0, and a completed report shows the version so obtained.
C18_VersionAdvisory ==
  /\ []((HasVersionQuery(handler) /\ pc \in {"run", "waiting", "done"}) =>
          /\ GoodVersionQueries = {} => version = Unknown
          /\ \A ch \in GoodVersionQueries : version = Strip(TextMode(ch.out))
          /\ Completed => result.version = {version}
          /\ HasMain => /\ MainChild.exe = cmd_parts.exe
                        /\ MainChild.args = cmd_parts.args
                        /\ MainChild.cwd = {cwd})
  /\ [][VersionQuery => (pc' = "run" /\ UNCHANGED <<cmd_parts, cwd, result, env>>)]_vars
  /\ [][pc = "version" => pc' \in {"version", "run"}]_vars

C18_Witness ==
  /\ Completed /\ handler = "bun" /\ Len(children) = 3
  /\ children[2].kind = "version" /\ children[2].code = {1}
  /\ result.version = {Unknown}

\* C19: a completed report has a standard-output section (a standard-error
\* section) exactly when the text captured from that stream is not empty, and the
\* content of a section that appears is not empty.
C19_Claim ==
  Completed =>
    /\ result.stdout # {} <=> TextMode(MainChild.out) # << >>
    /\ result.stderr # {} <=> TextMode(MainChild.err) # << >>
    /\ "STDOUT" \in Range(result.labels) <=> result.stdout # {}
    /\ "STDERR" \in Range(result.labels) <=> result.stderr # {}
    /\ \A text \in result.stdout \cup result.stderr : text # << >>

\* C19, first half: a section appears exactly when the captured stream is not empty.
C19_SectionIffCaptured ==
  Completed =>
    /\ result.stdout # {} <=> TextMode(MainChild.out) # << >>
    /\ result.stderr # {} <=> TextMode(MainChild.err) # << >>
    /\ "STDOUT" \in Range(result.labels) <=> result.stdout # {}
    /\ "STDERR" \in Range(result.labels) <=> result.stderr # {}

\* the working directory holds the manifest and nothing else, and has since the
\* start
ManifestOnly == envSteps = 0 /\ files = {"package.json"}

\* the marker probe of the invocation in progress has run
Probed ==
  /\ ProbedMarkers(handler) # {}
  /\ \/ pc \in {"version", "run", "waiting"}
     \/ pc = "done" /\ PassedValidation

\* C20: in a directory that holds only the manifest, the probe of every handler
\* that probes (npm, npx, yarn, bun; uv_command probes nothing) finds the manifest
\* present and every other marker absent, and bun raises no other-lock-files
\* warning; the probe raises the warning exactly when yarn.lock or
\* package-lock.json exists, and a completed report carries it exactly when raised.
C20_ManifestOnlyProbe ==
  /\ []((Probed /\ ManifestOnly) =>
          /\ has["package.json"]
          /\ \A m \in ProbedMarkers(handler) \ {"package.json"} : ~has[m]
          /\ ~has_other_locks
          /\ Completed => /\ result.markers["package.json"]
                          /\ \A m \in ProbedMarkers(handler) \ {"package.json"} :
                               ~result.markers[m]
                          /\ "Other lock files" \notin Range(result.labels))
  /\ [][ProbeMarkers =>
          (has_other_locks' <=>
             /\ handler = "bun"
             /\ DirExists(cwd)
             /\ ("yarn.lock" \in files \/ "package-lock.json" \in files))]_vars
  /\ [](Completed =>
          /\ result.warning <=> has_other_locks
          /\ "Other lock files" \in Range(result.labels) <=> has_other_locks)
  /\ [](has_other_locks => handler = "bun")

C20_Witness ==
  /\ Completed /\ handler = "bun" /\ ManifestOnly
  /\ result.markers["package.json"] /\ ~result.markers["bun.lockb"]
  /\ ~result.markers["node_modules"] /\ ~result.warning

AfterAttempt == {"waiting", "done"}

\* C22: every invocation is a single attempt.  The command is spawned at most
\* once; once the main run has been attempted (a child was created, or its launch
\* failed) the invocation never goes back to run it again, whatever the outcome;
\* and from the directory check on the command line is never changed, so nothing
\* is run with another executable.
C22_SingleAttempt ==
  /\ [](Cardinality({i \in DOMAIN children : children[i].kind = "main"}) <= 1)
  /\ [](HasMain => (MainChild.exe = cmd_parts.exe /\ MainChild.args = cmd_parts.args))
  /\ [][(pc \in AfterAttempt) => (pc' \in (AfterAttempt \cup {"idle"}))]_vars
  /\ [][pc = "run" =>
          /\ pc' \in (AfterAttempt \cup {"run"})
          /\ pc' = "run" => children' = children]_vars
  /\ [][(pc \in {"probe", "version", "run", "waiting"}) => cmd_parts' = cmd_parts]_vars
  /\ [][pc = "done" => (children' = children \/ pc' = "idle")]_vars

\* the launch of bun failed and the invocation ended there, no child of the
\* command having been created
C22_Witness ==
  /\ pc = "done" /\ handler = "bun" /\ PassedValidation /\ result.tag = "not-found"
  /\ binState = "absent" /\ ~HasMain /\ cmd_parts.exe = "bun"

\* C23: the markers of a report are the values read before the command was
\* spawned.  From the probe to the return of the handler the values read are
\* never replaced, whatever happens to the files meanwhile, and a completed report
\* shows exactly them (and bun's warning as it was raised by the probe).
C23_MarkersAreSnapshot ==
  /\ [][(pc \in {"version", "run", "waiting"}) =>
          (has' = has /\ has_other_locks' = has_other_locks)]_vars
  /\ [](Completed =>
          /\ DOMAIN result.markers = DOMAIN has
          /\ \A m \in DOMAIN has : result.markers[m] = has[m]
          /\ result.warning = has_other_locks)

\* the manifest appeared after the probe: the directory has it, the report says
\* it is absent
C23_Witness ==
  /\ Completed /\ handler = "npm" /\ envSteps = 1
  /\ files = {"package.json"} /\ ~result.markers["package.json"]

====
